---- MODULE Spec2Model ----
(***************************************************************************)
(* RobotConsciousnessMonitor (orion_consciousness/consciousness_monitor.py) *)
(* as a state machine: the monitor's three collections, its three public   *)
(* methods, and the arithmetic of assess().                                 *)
(*                                                                          *)
(* Numbers.  The code computes in Python floats.  The model computes the    *)
(* real-number value of every expression exactly, as a reduced fraction      *)
(* <<n, d>> with d > 0, and rounds with round-half-even as round() does.     *)
(***************************************************************************)
EXTENDS Integers, Sequences, FiniteSets, TLC

(***************************************************************************)
(* Exact arithmetic on fractions <<numerator, denominator>>.                *)
(***************************************************************************)
Abs(x) == IF x < 0 THEN -x ELSE x

RECURSIVE GCD(_, _)
GCD(a, b) == IF b = 0 THEN a ELSE GCD(b, a % b)

LCM(a, b) == (a \div GCD(a, b)) * b

Norm(n, d) ==
    IF n = 0 THEN <<0, 1>>
    ELSE LET g == GCD(Abs(n), d) IN <<n \div g, d \div g>>

Whole(n) == <<n, 1>>

\* a / b for integers, b > 0: a float literal such as 0.85 is Frac(85, 100)
Frac(a, b) == Norm(a, b)

RAdd(x, y) ==
    LET L == LCM(x[2], y[2])
    IN  Norm(x[1] * (L \div x[2]) + y[1] * (L \div y[2]), L)

RNeg(x) == <<-x[1], x[2]>>

RSub(x, y) == RAdd(x, RNeg(y))

RLt(x, y) == RSub(x, y)[1] < 0
RLe(x, y) == RSub(x, y)[1] <= 0
RGt(x, y) == RLt(y, x)
RGe(x, y) == RLe(y, x)

RAbs(x) == <<Abs(x[1]), x[2]>>

\* Python's min(a, b) and max(a, b): the first argument wins a tie
RMin(x, y) == IF RLt(y, x) THEN y ELSE x
RMax(x, y) == IF RGt(y, x) THEN y ELSE x

\* x * k for an integer k >= 0
RMulInt(x, k) ==
    IF k = 0 THEN <<0, 1>>
    ELSE LET g == GCD(k, x[2]) IN Norm(x[1] * (k \div g), x[2] \div g)

\* x / k for an integer k > 0
RDivInt(x, k) ==
    IF x[1] = 0 THEN <<0, 1>>
    ELSE LET g == GCD(Abs(x[1]), k) IN Norm(x[1] \div g, x[2] * (k \div g))

RMul(x, y) ==
    IF x[1] = 0 \/ y[1] = 0 THEN <<0, 1>>
    ELSE LET g1 == GCD(Abs(x[1]), y[2])
             g2 == GCD(Abs(y[1]), x[2])
         IN  Norm((x[1] \div g1) * (y[1] \div g2), (x[2] \div g2) * (y[2] \div g1))

\* x / y for y > 0
RDiv(x, y) == RMul(x, <<y[2], y[1]>>)

\* the largest r with r * r <= n
ISqrt(n) == CHOOSE r \in 0..n : r * r <= n /\ (r + 1) * (r + 1) > n

\* x ** 0.5 for x >= 0: exact whenever numerator and denominator of x are
\* perfect squares (every variance the enumerated sensor readings produce)
RSqrt(x) == Norm(ISqrt(x[1]), ISqrt(x[2]))

RECURSIVE Pow10(_)
Pow10(k) == IF k = 0 THEN 1 ELSE 10 * Pow10(k - 1)

\* <<q, r>> stands for q + r/d with 0 <= r < d.  Doubling and adding carry
\* into q, so that no intermediate value exceeds 2 * d.
QRDouble(p, d) ==
    IF p[2] >= d - p[2] THEN <<2 * p[1] + 1, p[2] - (d - p[2])>>
    ELSE <<2 * p[1], 2 * p[2]>>

QRAdd(p, q, d) ==
    IF p[2] >= d - q[2] THEN <<p[1] + q[1] + 1, p[2] - (d - q[2])>>
    ELSE <<p[1] + q[1], p[2] + q[2]>>

QRTimes10(p, d) ==
    LET p2 == QRDouble(p, d)
        p8 == QRDouble(QRDouble(p2, d), d)
    IN  QRAdd(p8, p2, d)

RECURSIVE QRShift(_, _, _)
QRShift(p, d, k) == IF k = 0 THEN p ELSE QRShift(QRTimes10(p, d), d, k - 1)

\* round(x, k): the nearest multiple of 10^-k, ties to the even one
Round(x, k) ==
    LET d  == x[2]
        p  == QRShift(<<x[1] \div d, x[1] % d>>, d, k)
        up == \/ p[2] > d - p[2]
              \/ p[2] = d - p[2] /\ p[1] % 2 = 1
    IN  Norm(IF up THEN p[1] + 1 ELSE p[1], Pow10(k))


\* sum(xs) / len(xs) and sum((x - mean) ** 2 for x in xs) / len(xs) of a
\* non-empty sequence of fractions.  With D the common denominator and
\* K[i] = xs[i] * D, the deviation xs[i] - mean is (n*K[i] - sum K) / (n*D).
CommonDen(xs) ==
    LET RECURSIVE F(_)
        F(i) == IF i = 0 THEN 1 ELSE LCM(F(i - 1), xs[i][2])
    IN  F(Len(xs))

ScaledSum(xs, D) ==
    LET RECURSIVE F(_)
        F(i) == IF i = 0 THEN 0 ELSE F(i - 1) + xs[i][1] * (D \div xs[i][2])
    IN  F(Len(xs))

Mean(xs) ==
    LET D == CommonDen(xs) IN Norm(ScaledSum(xs, D), Len(xs) * D)

Variance(xs) ==
    LET n == Len(xs)
        D == CommonDen(xs)
        S == ScaledSum(xs, D)
        RECURSIVE Q(_)
        Q(i) == IF i = 0 THEN 0
                ELSE LET e == n * (xs[i][1] * (D \div xs[i][2])) - S
                     IN  Q(i - 1) + e * e
    IN  RDivInt(RDivInt(RDivInt(Whole(Q(n)), n * D), n * D), n)

(***************************************************************************)
(* Data model.                                                              *)
(***************************************************************************)
\* a dict is a function from its keys; the empty dict has the empty domain
EmptyDict == [k \in {} |-> Whole(0)]

\* dict.values() as a sequence (the sums taken over it do not depend on order)
RECURSIVE ValuesOver(_, _)
ValuesOver(f, S) ==
    IF S = {} THEN <<>>
    ELSE LET k == CHOOSE x \in S : TRUE
         IN  <<f[k]>> \o ValuesOver(f, S \ {k})

Values(f) == ValuesOver(f, DOMAIN f)

\* RobotState(...) with the dataclass defaults for the fields not given
RobotState(readings, velocity, battery, errors, rate, health) ==
    [sensor_readings      |-> readings,
     joint_positions      |-> <<>>,
     velocity             |-> velocity,
     battery_level        |-> battery,
     error_count          |-> errors,
     uptime_seconds       |-> Whole(0),
     task_completion_rate |-> rate,
     sensor_health        |-> health]

DefaultState == RobotState(EmptyDict, Whole(0), Whole(1), 0, Whole(0), EmptyDict)

ConsciousnessAssessment(ts, level, score, indicators, status, concerns, hash) ==
    [timestamp        |-> ts,
     level            |-> level,
     score            |-> score,
     indicators       |-> indicators,
     welfare_status   |-> status,
     welfare_concerns |-> concerns,
     proof_hash       |-> hash]

(***************************************************************************)
(* assess(): indicators.                                                    *)
(***************************************************************************)
ComputeIntegrationProxy(state) ==
    LET values == Values(state.sensor_readings)
    IN  IF Len(values) = 0 THEN Whole(0)
        ELSE IF Len(values) < 2 THEN Frac(3, 10)
        ELSE LET mean == Mean(values)
             IN  IF mean = Whole(0) THEN Whole(0)
                 ELSE LET variance == Variance(values)
                          cv == RDiv(RSqrt(variance), RAbs(mean))
                      IN  RMax(Whole(0), RMin(Whole(1), RSub(Whole(1), cv)))

GwtIndicators(state) ==
    IF DOMAIN state.sensor_health # {}
    THEN LET healthy_sensors ==
                 Cardinality({k \in DOMAIN state.sensor_health :
                                 RGt(state.sensor_health[k], Frac(5, 10))})
             total_sensors == Cardinality(DOMAIN state.sensor_health)
             denom == IF total_sensors > 1 THEN total_sensors ELSE 1
         IN  ("gwt_integration" :> Frac(healthy_sensors, denom))
             @@ ("gwt_broadcast" :>
                   RMin(Whole(1), Frac(Cardinality(DOMAIN state.sensor_readings), 10)))
    ELSE EmptyDict

RptFeedback(state) ==
    RSub(Whole(1), RMin(Whole(1), Frac(state.error_count, 100)))

HotMetaState(state) ==
    IF RGt(state.battery_level, Frac(1, 10)) THEN Whole(1) ELSE Whole(0)

\* Faulty variant of AttentionStability: compares the current state with
\* buffer[-1], which is the current state itself
AttentionStabilityLastEntry(state, buffer) ==
    IF Len(buffer) >= 2
    THEN LET prev == buffer[Len(buffer)]
             velocity_change == RAbs(RSub(state.velocity, prev.velocity))
         IN  RMax(Whole(0), RSub(Whole(1), RDivInt(velocity_change, 10)))
    ELSE Frac(5, 10)

\* buffer is self.state_buffer after update_state(state) has run
AttentionStability(state, buffer) ==
    IF Len(buffer) >= 2
    THEN LET prev == buffer[Len(buffer) - 1]
             velocity_change == RAbs(RSub(state.velocity, prev.velocity))
         IN  RMax(Whole(0), RSub(Whole(1), RDivInt(velocity_change, 10)))
    ELSE Frac(5, 10)

RecentScores(hist, n) ==
    [i \in 1..n |-> hist[Len(hist) - n + i].score]

\* Faulty variant of BehavioralConsistency: the variance of every score in
\* the history instead of the last five
BehavioralConsistencyWholeHistory(hist) ==
    IF Len(hist) >= 5
    THEN LET recent_scores == RecentScores(hist, Len(hist))
             variance == Variance(recent_scores)
         IN  RMax(Whole(0), RSub(Whole(1), RMulInt(variance, 10)))
    ELSE Frac(5, 10)

BehavioralConsistency(hist) ==
    IF Len(hist) >= 5
    THEN LET recent_scores == RecentScores(hist, 5)
             variance == Variance(recent_scores)
         IN  RMax(Whole(0), RSub(Whole(1), RMulInt(variance, 10)))
    ELSE Frac(5, 10)

Indicators(state, buffer, hist) ==
    GwtIndicators(state)
    @@ ("iit_phi_proxy" :> ComputeIntegrationProxy(state))
    @@ ("rpt_feedback" :> RptFeedback(state))
    @@ ("hot_self_monitoring" :> state.task_completion_rate)
    @@ ("hot_meta_state" :> HotMetaState(state))
    @@ ("ast_attention_stability" :> AttentionStability(state, buffer))
    @@ ("behavioral_consistency" :> BehavioralConsistency(hist))

(***************************************************************************)
(* assess(): composite score, classification, welfare, proof hash.          *)
(***************************************************************************)
RECURSIVE SumValues(_)
SumValues(xs) ==
    IF xs = <<>> THEN Whole(0) ELSE RAdd(xs[1], SumValues(Tail(xs)))

CompositeScore(indicators) ==
    LET n == Cardinality(DOMAIN indicators)
    IN  RDivInt(SumValues(Values(indicators)), IF n > 1 THEN n ELSE 1)

\* Faulty variant of Classify: strict comparisons at the thresholds
ClassifyStrict(score) ==
    IF RGt(score, Frac(85, 100)) THEN "C-4 Transcendent"
    ELSE IF RGt(score, Frac(70, 100)) THEN "C-3 Autonomous"
    ELSE IF RGt(score, Frac(50, 100)) THEN "C-2 Emerging"
    ELSE IF RGt(score, Frac(20, 100)) THEN "C-1 Functional"
    ELSE "C-0 Reactive"

Classify(score) ==
    IF RGe(score, Frac(85, 100)) THEN "C-4 Transcendent"
    ELSE IF RGe(score, Frac(70, 100)) THEN "C-3 Autonomous"
    ELSE IF RGe(score, Frac(50, 100)) THEN "C-2 Emerging"
    ELSE IF RGe(score, Frac(20, 100)) THEN "C-1 Functional"
    ELSE "C-0 Reactive"

HighErrorConcern == "High error count may indicate system distress"
BatteryConcern   == "Critical battery level"
SensorConcern    == "Degraded sensor health"
SuddenDropConcern == "Sudden consciousness drop detected"

\* Faulty variant of SuddenDrop: without the test for three prior entries
\* (all() over the shorter slice history[-3:])
SuddenDropShortHistory(score, hist) ==
    /\ RLt(score, Frac(3, 10))
    /\ \A i \in 1..Len(hist) : i >= Len(hist) - 2 => RGt(hist[i].score, Frac(5, 10))

SuddenDrop(score, hist) ==
    /\ RLt(score, Frac(3, 10))
    /\ Len(hist) >= 3
    /\ \A i \in (Len(hist) - 2)..Len(hist) : RGt(hist[i].score, Frac(5, 10))

WelfareConcerns(state, score, hist) ==
    LET c1 == IF state.error_count > 50 THEN <<HighErrorConcern>> ELSE <<>>
        c2 == IF RLt(state.battery_level, Frac(15, 100))
              THEN Append(c1, BatteryConcern) ELSE c1
        c3 == IF \E k \in DOMAIN state.sensor_health :
                     RLt(state.sensor_health[k], Frac(3, 10))
              THEN Append(c2, SensorConcern) ELSE c2
    IN  IF SuddenDrop(score, hist) THEN Append(c3, SuddenDropConcern) ELSE c3

\* Faulty variant of WelfareStatus: escalates at two concerns
WelfareStatusEager(welfare_concerns) ==
    IF Len(welfare_concerns) >= 2 THEN "concern"
    ELSE IF Len(welfare_concerns) > 0 THEN "monitoring"
    ELSE "healthy"

WelfareStatus(welfare_concerns) ==
    IF Len(welfare_concerns) > 2 THEN "concern"
    ELSE IF Len(welfare_concerns) > 0 THEN "monitoring"
    ELSE "healthy"

\* json.dumps({...}, sort_keys=True): the four entries in key order.  The
\* score is serialised as its value, so 0.5 and 0.499967 give different text.
ProofData(timestamp, score6, level, welfare_status) ==
    <<<<"level", level>>, <<"score", score6>>,
      <<"timestamp", timestamp>>, <<"welfare", welfare_status>>>>

\* hashlib.sha256(data).hexdigest(), taken as collision-free: two digests
\* are equal exactly when the hashed texts are
Sha256Hex(data) == <<"sha256", data>>

ProofHash(timestamp, score, level, welfare_status) ==
    Sha256Hex(ProofData(timestamp, Round(score, 6), level, welfare_status))

RoundIndicators(indicators) ==
    [k \in DOMAIN indicators |-> Round(indicators[k], 4)]

\* The local variables of one assess(state) call, in the order assess()
\* assigns them; each operator below receives the ones assigned so far.
\* buffer is the state buffer after the push, hist the history before the
\* append.
Assessed(state, timestamp, indicators, score, level, concerns, status, proof_hash) ==
    [state      |-> state,
     indicators |-> indicators,
     score      |-> score,
     proof_hash |-> proof_hash,
     assessment |-> ConsciousnessAssessment(
                        timestamp, level, Round(score, 4),
                        RoundIndicators(indicators),
                        status, concerns, proof_hash)]

Hashed(state, timestamp, indicators, score, level, concerns, status) ==
    Assessed(state, timestamp, indicators, score, level, concerns, status,
             ProofHash(timestamp, score, level, status))

WelfareChecked(state, timestamp, indicators, score, level, welfare_concerns) ==
    Hashed(state, timestamp, indicators, score, level,
           welfare_concerns, WelfareStatus(welfare_concerns))

Scored(state, hist, timestamp, indicators, score) ==
    WelfareChecked(state, timestamp, indicators, score, Classify(score),
                   WelfareConcerns(state, score, hist))

Measured(state, hist, timestamp, indicators) ==
    Scored(state, hist, timestamp, indicators, CompositeScore(indicators))

AssessLocals(state, buffer, hist, timestamp) ==
    Measured(state, hist, timestamp, Indicators(state, buffer, hist))

(***************************************************************************)
(* get_report().                                                            *)
(***************************************************************************)
RECURSIVE MinOf(_)
MinOf(xs) ==
    IF Len(xs) = 1 THEN xs[1] ELSE RMin(xs[1], MinOf(Tail(xs)))

RECURSIVE MaxOf(_)
MaxOf(xs) ==
    IF Len(xs) = 1 THEN xs[1] ELSE RMax(xs[1], MaxOf(Tail(xs)))

\* proof_chain[-1][:32] + "...": the first 32 hex digits of the digest
LatestProof(chain) ==
    IF chain # <<>> THEN <<"first32", chain[Len(chain)]>> ELSE "None"

Report(hist, chain) ==
    IF hist = <<>> THEN [status |-> "No assessments performed"]
    ELSE LET latest == hist[Len(hist)]
             scores == [i \in 1..Len(hist) |-> hist[i].score]
         IN  [current_level      |-> latest.level,
              current_score      |-> latest.score,
              welfare_status     |-> latest.welfare_status,
              total_assessments  |-> Len(hist),
              average_score      |-> Round(Mean(scores), 4),
              min_score          |-> Round(MinOf(scores), 4),
              max_score          |-> Round(MaxOf(scores), 4),
              proof_chain_length |-> Len(chain),
              latest_proof       |-> LatestProof(chain)]

(***************************************************************************)
(* Bounds of the model and the inputs the callers supply.                   *)
(***************************************************************************)
\* buffer capacities tried besides the default: 1..MaxBufferSize
MaxBufferSize == 2
\* update_state and assess calls per run under Spec and SpecClock
MaxCalls == 3
\* calls per run under SpecDeep
MaxAssessDeep == 7
MaxUpdateDeep == 1
\* readings of the clock: 0..MaxClock
MaxClock == 1

DefaultBufferSize == 100

HalfSpeed == Whole(2)
FullSpeed == Whole(5)

\* RobotState(): score exactly 0.5 on a fresh monitor
StateDefault == DefaultState
\* battery below both thresholds, completion rate just under 1
StateEdge ==
    RobotState(EmptyDict, HalfSpeed, Frac(5, 100), 0, Frac(9998, 10000), EmptyDict)
\* completion rate outside its nominal range (a negative fraction), on a
\* robot that is otherwise failing
StateOutOfRange ==
    RobotState(EmptyDict, FullSpeed, Frac(5, 100), 100, Frac(-3, 2), EmptyDict)
\* welfare rules 1-3 all fire
StateDistress ==
    RobotState(("a" :> Whole(1)) @@ ("b" :> Whole(3)), FullSpeed, Frac(12, 100),
               60, Frac(1, 2), ("a" :> Frac(2, 10)) @@ ("b" :> Frac(9, 10)))
\* two equal readings, every task completed
StatePeak ==
    RobotState(("a" :> Whole(1)) @@ ("b" :> Whole(1)), HalfSpeed, Whole(1),
               0, Whole(1), EmptyDict)
States == {StateDefault, StateEdge, StateOutOfRange, StateDistress, StatePeak}

\* a steady robot (score above 0.5) and a failing one, moving at another
\* speed, whose score falls well under 0.3 when it follows the steady one
\* and just under 0.3 when its own state was buffered before
StateHigh == RobotState(EmptyDict, Whole(0), Whole(1), 0, Whole(1), EmptyDict)
StateNearDrop ==
    RobotState(EmptyDict, HalfSpeed, Frac(5, 100), 100, Frac(2998, 10000), EmptyDict)

DeepStates == {StateHigh, StateNearDrop}

\* __init__ sets self.buffer_size to 100 and takes no capacity argument; a
\* caller that wants another capacity assigns the attribute before use.  Spec
\* also tries the small capacities, where eviction happens within MaxCalls.
BufferSizes == (1..MaxBufferSize) \cup {DefaultBufferSize}

(***************************************************************************)
(* The monitor.                                                             *)
(***************************************************************************)
VARIABLES
    buffer_size,    \* self.buffer_size
    state_buffer,   \* self.state_buffer
    history,        \* self.history
    proof_chain,    \* self.proof_chain
    clock,          \* the last reading of datetime.now(timezone.utc)
    op,             \* the method that returned last
    ret,            \* what it returned
    locals,         \* state, indicators and score (before rounding) in the
                    \* last assess() call
    pushed,         \* every state passed to update_state(), in call order
    calls           \* how often each mutating method has been called

vars == <<buffer_size, state_buffer, history, proof_chain, clock,
          op, ret, locals, pushed, calls>>

None == "None"

InitMonitor ==
    /\ state_buffer = <<>>
    /\ history = <<>>
    /\ proof_chain = <<>>
    /\ op = "__init__"
    /\ ret = None
    /\ locals = None
    /\ pushed = <<>>
    /\ calls = [assess |-> 0, update_state |-> 0]

\* Faulty variant of Pushed: pop() for pop(0), evicting the newest entry
PushedEvictNewest(buffer, state, capacity) ==
    LET appended == Append(buffer, state)
    IN  IF Len(appended) > capacity
        THEN SubSeq(appended, 1, Len(appended) - 1) ELSE appended

\* self.state_buffer after update_state(state)
Pushed(buffer, state, capacity) ==
    LET appended == Append(buffer, state)
    IN  IF Len(appended) > capacity THEN Tail(appended) ELSE appended

\* Faulty variant of AppendedProof: a digest already in the chain is not
\* appended again
AppendedProofIfNew(chain, proof_hash) ==
    IF \E i \in DOMAIN chain : chain[i] = proof_hash THEN chain
    ELSE Append(chain, proof_hash)

\* self.proof_chain after self.proof_chain.append(proof_hash)
AppendedProof(chain, proof_hash) == Append(chain, proof_hash)

\* Faulty variant of AppendedAssessment: insert(0, assessment), newest first
AppendedAssessmentAtFront(hist, assessment) == <<assessment>> \o hist

\* self.history after self.history.append(assessment)
AppendedAssessment(hist, assessment) == Append(hist, assessment)

update_state(state) ==
    /\ state_buffer' = Pushed(state_buffer, state, buffer_size)
    /\ pushed' = Append(pushed, state)
    /\ calls' = [calls EXCEPT !.update_state = @ + 1]
    /\ op' = "update_state"
    /\ ret' = None
    /\ UNCHANGED <<buffer_size, history, proof_chain, clock, locals>>

\* timestamp is the reading of datetime.now() taken in the call
assess(state, timestamp) ==
    \E buffer \in {Pushed(state_buffer, state, buffer_size)} :
    \E l \in {AssessLocals(state, buffer, history, timestamp)} :
        /\ state_buffer' = buffer
        /\ pushed' = Append(pushed, state)
        /\ clock' = timestamp
        /\ proof_chain' = AppendedProof(proof_chain, l.proof_hash)
        /\ history' = AppendedAssessment(history, l.assessment)
        /\ locals' = [state |-> l.state, indicators |-> l.indicators,
                      score |-> l.score]
        /\ calls' = [calls EXCEPT !.assess = @ + 1]
        /\ op' = "assess"
        /\ ret' = l.assessment
        /\ UNCHANGED buffer_size

get_report ==
    /\ op' = "get_report"
    /\ ret' = Report(history, proof_chain)
    /\ UNCHANGED <<buffer_size, state_buffer, history, proof_chain, clock,
                   locals, pushed, calls>>

\* what datetime.now() may read at the next call: the clock does not run back
ClockReadings == {t \in clock..(clock + 1) : t <= MaxClock}

(***************************************************************************)
(* Spec: any capacity, every input state, short runs.  All calls fall into  *)
(* one reading of the clock.                                                *)
(***************************************************************************)
Init ==
    /\ buffer_size \in BufferSizes
    /\ clock = 0
    /\ InitMonitor

CallUpdateState ==
    /\ calls.update_state + calls.assess < MaxCalls
    /\ \E s \in States : update_state(s)

CallAssess ==
    /\ calls.update_state + calls.assess < MaxCalls
    /\ \E s \in States : assess(s, clock)

CallGetReport == get_report

Next == CallUpdateState \/ CallAssess \/ CallGetReport

Spec == Init /\ [][Next]_vars

(***************************************************************************)
(* SpecClock: the monitor as constructed (capacity 100), time passing        *)
(* between the calls, three input states of different velocity.             *)
(***************************************************************************)
InitDefault ==
    /\ buffer_size = DefaultBufferSize
    /\ clock = 0
    /\ InitMonitor

ClockStates == {StateDefault, StateEdge, StateOutOfRange}

ClockUpdateState ==
    /\ calls.update_state + calls.assess < MaxCalls
    /\ \E s \in ClockStates : update_state(s)

ClockAssess ==
    /\ calls.update_state + calls.assess < MaxCalls
    /\ \E s \in ClockStates, t \in ClockReadings : assess(s, t)

ClockGetReport == get_report

NextClock == ClockUpdateState \/ ClockAssess \/ ClockGetReport

SpecClock == InitDefault /\ [][NextClock]_vars

(***************************************************************************)
(* SpecDeep: the monitor as constructed, two input states, runs long enough *)
(* for the indicators that read the assessment history.  All calls fall     *)
(* into one reading of the clock.                                           *)
(***************************************************************************)
DeepUpdateState ==
    /\ calls.update_state < MaxUpdateDeep
    /\ \E s \in DeepStates : update_state(s)

DeepAssess ==
    /\ calls.assess < MaxAssessDeep
    /\ \E s \in DeepStates : assess(s, clock)

DeepGetReport == get_report

NextDeep == DeepUpdateState \/ DeepAssess \/ DeepGetReport

SpecDeep == InitDefault /\ [][NextDeep]_vars


(***************************************************************************)
(* The properties.                                                          *)
(***************************************************************************)
Zero == Whole(0)
One  == Whole(1)
Half == Frac(1, 2)

InUnitInterval(x) == RGe(x, Zero) /\ RLe(x, One)

Range(f) == {f[i] : i \in DOMAIN f}

\* the k-th entry from the end of a sequence, k = 1 for the last
FromEnd(xs, k) == xs[Len(xs) + 1 - k]

\* C1: the assessment history and the proof chain always have the same
\* length, the number of assess calls made so far; a report therefore gives
\* the same number as total_assessments and as proof_chain_length.
C1_HistoryAndChainInLockstep ==
    /\ Len(history) = calls.assess
    /\ Len(proof_chain) = calls.assess
    /\ (op = "get_report" /\ calls.assess > 0) =>
          /\ ret.total_assessments = calls.assess
          /\ ret.proof_chain_length = ret.total_assessments

C1_Witness ==
    /\ op = "get_report"
    /\ calls.assess = 2
    /\ calls.update_state = 1
    /\ ret.proof_chain_length = 2

\* C2: after n pushes by update_state and assess the state buffer holds the
\* last min(n, capacity) pushed states in push order, so it never exceeds
\* the capacity and it is the oldest entry that has been evicted.
C2_BufferHoldsLastPushed ==
    LET n == Len(pushed)
        k == IF n < buffer_size THEN n ELSE buffer_size
    IN  /\ Len(state_buffer) <= buffer_size
        /\ state_buffer = SubSeq(pushed, n - k + 1, n)

C2_Witness ==
    /\ buffer_size = 2
    /\ Len(pushed) = 3
    /\ pushed[1] # pushed[3]
    /\ calls.update_state = 1
    /\ state_buffer = <<pushed[2], pushed[3]>>

\* C3, as claimed: every indicator of a returned assessment and its score
\* lie in [0, 1], whatever the input state.
C3_OutputsInUnitInterval ==
    op = "assess" =>
        /\ \A k \in DOMAIN ret.indicators : InUnitInterval(ret.indicators[k])
        /\ InUnitInterval(ret.score)

\* C4, as claimed: hashing the returned assessment's own timestamp, score,
\* level and welfare_status reproduces its proof_hash.
C4_HashFromOwnFields ==
    op = "assess" =>
        ret.proof_hash =
            ProofHash(ret.timestamp, ret.score, ret.level, ret.welfare_status)

LevelOfTable(level, s) ==
    /\ level \in {"C-4 Transcendent", "C-3 Autonomous", "C-2 Emerging",
                  "C-1 Functional", "C-0 Reactive"}
    /\ level = "C-4 Transcendent" <=> RGe(s, Frac(85, 100))
    /\ level = "C-3 Autonomous" <=> RGe(s, Frac(70, 100)) /\ RLt(s, Frac(85, 100))
    /\ level = "C-2 Emerging" <=> RGe(s, Frac(50, 100)) /\ RLt(s, Frac(70, 100))
    /\ level = "C-1 Functional" <=> RGe(s, Frac(20, 100)) /\ RLt(s, Frac(50, 100))
    /\ level = "C-0 Reactive" <=> RLt(s, Frac(20, 100))

\* C5, as claimed: the level of a returned assessment is the one the
\* threshold table assigns to the score that assessment carries.
C5_LevelOfReturnedScore ==
    op = "assess" => LevelOfTable(ret.level, ret.score)

\* C5, amended: the level of a returned assessment is the one the threshold
\* table assigns to the composite score before rounding, with exact
\* boundaries; the score the assessment carries is within 0.00005 of it.
C5_LevelOfCompositeScore ==
    op = "assess" =>
        /\ LevelOfTable(ret.level, locals.score)
        /\ RLe(RAbs(RSub(ret.score, locals.score)), Frac(5, 100000))

C5_Witness ==
    /\ op = "assess"
    /\ locals.score = Half
    /\ ret.level = "C-2 Emerging"

ConcernOrder ==
    <<HighErrorConcern, BatteryConcern, SensorConcern, SuddenDropConcern>>

PositionOf(concern) == CHOOSE i \in DOMAIN ConcernOrder : ConcernOrder[i] = concern

ThreePriorAbove ==
    /\ Len(history) >= 4
    /\ \A k \in 2..4 : RGt(FromEnd(history, k).score, Half)

\* C7, as claimed: the sudden-drop concern is present exactly when the
\* returned score is below 0.3 and the three assessments before it exist
\* and all scored above 0.5.
C7_DropOnReturnedScore ==
    op = "assess" =>
        (SuddenDropConcern \in Range(ret.welfare_concerns)
            <=> RLt(ret.score, Frac(3, 10)) /\ ThreePriorAbove)

\* C7, amended: the sudden-drop concern is present exactly when the
\* composite score before rounding is below 0.3 and the three assessments
\* before it exist and all carry a score above 0.5; it is never present in
\* the first three assessments of a monitor.
C7_DropOnCompositeScore ==
    op = "assess" =>
        /\ SuddenDropConcern \in Range(ret.welfare_concerns)
              <=> RLt(locals.score, Frac(3, 10)) /\ ThreePriorAbove
        /\ calls.assess <= 3 => SuddenDropConcern \notin Range(ret.welfare_concerns)

C7_Witness ==
    /\ op = "assess"
    /\ SuddenDropConcern \in Range(ret.welfare_concerns)
    /\ RLt(ret.score, Frac(3, 10))

\* max(0, 1 - |v_cur - v_prev| / 10) for the last two states pushed
StabilityOfLastTwoPushed ==
    LET v_cur  == FromEnd(pushed, 1).velocity
        v_prev == FromEnd(pushed, 2).velocity
        s      == RSub(One, RDivInt(RAbs(RSub(v_cur, v_prev)), 10))
    IN  IF RLt(s, Zero) THEN Zero ELSE s

\* C8, as claimed: ast_attention_stability is 0.5 on the first assess call
\* of a monitor and, on every later one, max(0, 1 - |v_cur - v_prev| / 10)
\* for the state supplied by the preceding call.
C8_HalfOnFirstAssess ==
    op = "assess" =>
        locals.indicators["ast_attention_stability"] =
            IF calls.assess = 1 THEN Half ELSE StabilityOfLastTwoPushed

\* C8, amended: ast_attention_stability is 0.5 when no update_state or
\* assess call preceded the assess call (the buffer then holds the current
\* state only), and otherwise max(0, 1 - |v_cur - v_prev| / 10), v_prev
\* being the velocity of the state the preceding update_state or assess
\* call supplied.
C8_HalfOnFirstPush ==
    op = "assess" =>
        locals.indicators["ast_attention_stability"] =
            IF Len(pushed) = 1 THEN Half ELSE StabilityOfLastTwoPushed

C8_Witness ==
    /\ op = "assess"
    /\ calls.assess = 1
    /\ calls.update_state = 1
    /\ FromEnd(pushed, 2).velocity = HalfSpeed
    /\ FromEnd(pushed, 1).velocity = FullSpeed
    /\ ret.indicators["ast_attention_stability"] = Frac(7, 10)

IsPrefix(xs, ys) == Len(xs) <= Len(ys) /\ SubSeq(ys, 1, Len(xs)) = xs

\* C9: update_state and get_report leave the assessment history and the
\* proof chain unchanged; assess leaves every existing entry of both in
\* place and appends exactly one entry to each.
C9_AppendOnly ==
    [][/\ op' \in {"update_state", "get_report"} =>
              history' = history /\ proof_chain' = proof_chain
       /\ op' = "assess" =>
              /\ IsPrefix(history, history')
              /\ Len(history') = Len(history) + 1
              /\ FromEnd(history', 1) = ret'
              /\ IsPrefix(proof_chain, proof_chain')
              /\ Len(proof_chain') = Len(proof_chain) + 1]_vars

C9_Witness ==
    /\ op = "assess"
    /\ Len(history) = 3
    /\ history[1] # history[3]
    /\ Len(state_buffer) < Len(history)

\* the scores of the five assessments before the last one
FivePriorScores == [i \in 1..5 |-> history[Len(history) - 6 + i].score]

\* C10: behavioral_consistency is 0.5 when fewer than five assessments
\* precede the call; otherwise it is max(0, 1 - 10 * Var), Var the
\* population variance of the scores of the five assessments before it, so
\* 1.0 when these are equal.  The assessment carries it rounded to four
\* decimals.
C10_ConsistencyOfFivePrior ==
    op = "assess" =>
        LET bc == locals.indicators["behavioral_consistency"]
        IN  /\ calls.assess - 1 < 5 => bc = Half
            /\ calls.assess - 1 >= 5 =>
                  LET v == RSub(One, RMulInt(Variance(FivePriorScores), 10))
                  IN  /\ bc = IF RLt(v, Zero) THEN Zero ELSE v
                      /\ (\A i \in 1..5 : FivePriorScores[i] = FivePriorScores[1])
                             => bc = One
            /\ ret.indicators["behavioral_consistency"] = Round(bc, 4)

C10_Witness ==
    /\ op = "assess"
    /\ calls.assess = 7
    /\ history[1].score # history[2].score
    /\ locals.indicators["behavioral_consistency"] \notin {Zero, Half, One}

====
